---------------------------- MODULE Spec2Model ----------------------------
(***************************************************************************)
(* Model of the IceCube point-source tools:                                *)
(*   - MapScan (point_source_analysis.py): source generation, output       *)
(*     arrays, the scan loop, the per-candidate test, the energy cuts;     *)
(*   - SpatialGaussianLikelihood and MarginalisedEnergyLikelihood          *)
(*     (point_source_likelihood.py).                                       *)
(* Angles are integers in micro-radians, Python's None is the integer      *)
(* None, Python's 0-based index i is position i + 1 of a TLA+ sequence.    *)
(***************************************************************************)
EXTENDS Integers, Sequences, FiniteSets, TLC

VARIABLES
    \* ---- MapScan object ----
    nside,          \* self.nside (None or an integer)
    npix,           \* self.npix  (None or an integer)
    periods,        \* self.events.periods
    num_of_irf_periods, \* self.num_of_irf_periods
    src_st,         \* "unset": self.ra_test was never assigned; "none"; "list"
    ra_test,        \* self.ra_test  (micro-radians)
    dec_test,       \* self.dec_test (micro-radians)
    has_out,        \* TRUE once self.ts ... self.index_err exist
    ts, index, ns, ns_err, index_err,   \* the output arrays
    ev_ra, ev_dec,  \* self.events._ra, self.events._dec
    \* ---- perform_scan in progress ----
    pc,             \* "idle", "loop", "done", "error"
    c,              \* loop counter of perform_scan (0-based)
    err,            \* the exception the last operation ended with ("" if none)
    gen_ok,         \* generate_sources returned normally for the current sources
    \* ---- what the likelihood and the minimizer saw, per candidate ----
    lkl,            \* per candidate: the likelihood built for it and its arguments
    fitCalls,       \* per candidate: number of get_test_statistic() calls
    fitValid,       \* per candidate: the minimizer's convergence status
    \* ---- apply_cuts ----
    northern_emin, equator_emin, southern_emin,
    cfg_periods,    \* self.periods (data.periods of the configuration)
    cut_events,     \* per period: the events (reco_energy, dec) of the catalog
    cut_st,         \* "none", "returned", "TypeError"
    \* ---- SpatialGaussianLikelihood.__call__ ----
    sp_event,       \* argument event_coord  (ra, dec)
    sp_source,      \* argument source_coord (ra, dec)
    sp_fperr,       \* rounding error of the floating-point evaluation of cos_r
    sp_cos_r,       \* cos_r as handed to np.arccos (thousandths)
    sp_r,           \* r (milli-radians)
    sp_st,          \* "idle", "returned"
    \* ---- MarginalisedEnergyLikelihood (one object, two callers) ----
    en_new_index,   \* self._new_index
    en_weights,     \* self._weights
    en_hist,        \* self._hist
    en_pc,          \* per caller: position in __call__
    en_E,           \* per caller: argument E (as a position on the log10 axis)
    en_arg,         \* per caller: argument new_index
    en_ret          \* per caller: what the call returned or raised

scanVars == <<nside, npix, periods, num_of_irf_periods, src_st, ra_test, dec_test,
              has_out, ts, index, ns, ns_err, index_err, ev_ra, ev_dec,
              pc, c, err, gen_ok, lkl, fitCalls, fitValid>>
cutVars  == <<northern_emin, equator_emin, southern_emin, cfg_periods, cut_events, cut_st>>
spVars   == <<sp_event, sp_source, sp_fperr, sp_cos_r, sp_r, sp_st>>
enVars   == <<en_new_index, en_weights, en_hist, en_pc, en_E, en_arg, en_ret>>
vars     == <<scanVars, cutVars, spVars, enVars>>

-----------------------------------------------------------------------------
(* Bounds of the model *)

MaxNpix == 5        \* largest npix a configuration file gives
MaxCand == 2        \* longest user-supplied list of candidates
MaxN    == 1        \* largest event count N of a likelihood
MaxEv   == 2        \* largest number of events of a period

-----------------------------------------------------------------------------
(* Helpers *)

None == -1

\* np.deg2rad, in micro-radians
Deg2Rad(d) == (d * 3141593) \div 180

\* np.zeros(n), np.zeros((n, m))
Zeros(n) == [i \in 1..n |-> 0]
Zeros2(n, m) == [i \in 1..n |-> [j \in 1..m |-> 0]]

SeqsUpTo(S, n) == UNION {[1..k -> S] : k \in 1..n}

\* "86" in p
Has86(p) == p \in {"IC86_I", "IC86_II"}

\* the loop of MapScan.__init__ over events.periods
RECURSIVE CountIrfPeriods(_, _, _)
CountIrfPeriods(ps, is_86, n) ==
    IF ps = <<>> THEN n
    ELSE IF Has86(Head(ps)) /\ ~is_86
         THEN CountIrfPeriods(Tail(ps), TRUE, n + 1)
         ELSE CountIrfPeriods(Tail(ps), is_86, n + 1)

\* hp.nside2npix
Nside2Npix(n) == 12 * n * n

\* hp.pix2ang(nside, p, nest=False) followed by spherical_to_icrs, for nside = 1:
\* three rings of four pixels at dec = asin(2/3), 0, -asin(2/3)
PixRa(p)  == IF p \in 4..7 THEN Deg2Rad(90 * (p - 4)) ELSE Deg2Rad(45 + 90 * (p % 4))
PixDec(p) == IF p \in 0..3 THEN 729728 ELSE IF p \in 4..7 THEN 0 ELSE -729728

-----------------------------------------------------------------------------
(* MapScan: state after __init__ (load_config has read the configuration) *)

PeriodChoices == {<<"IC40", "IC86_I">>}

\* a value handed to the likelihood: a numpy array or one number
ArrayArg(a)  == [arr |-> TRUE,  seq |-> a,    num |-> 0]
ScalarArg(x) == [arr |-> FALSE, seq |-> <<>>, num |-> x]

NoLikelihood == [kind |-> "none", ra |-> ScalarArg(0), dec |-> ScalarArg(0), N |-> None]

\* coordinates a caller assigns to ra_test / dec_test
CandDecs == {Deg2Rad(-20), Deg2Rad(10), Deg2Rad(20)}
CandRas  == {Deg2Rad(45)}

ScanInit ==
    /\ nside \in {None, 1}
    /\ npix \in {None} \cup (1..MaxNpix)
    /\ periods \in PeriodChoices
    /\ num_of_irf_periods = CountIrfPeriods(periods, FALSE, 0)
    /\ src_st = "unset" /\ ra_test = <<>> /\ dec_test = <<>>
    /\ has_out = FALSE
    /\ ts = <<>> /\ index = <<>> /\ ns = <<>> /\ ns_err = <<>> /\ index_err = <<>>
    /\ ev_ra = <<Deg2Rad(30), Deg2Rad(200)>> /\ ev_dec = <<Deg2Rad(5), Deg2Rad(-40)>>
    /\ pc = "idle" /\ c = 0 /\ err = "" /\ gen_ok = FALSE
    /\ lkl = <<>> /\ fitCalls = <<>> /\ fitValid = <<>>

outVars == <<has_out, ts, index, ns, ns_err, index_err>>
logVars == <<lkl, fitCalls, fitValid>>
cfgVars == <<nside, periods, num_of_irf_periods, ev_ra, ev_dec>>

\* a caller assigns self.ra_test and self.dec_test (lists, or None)
ProvideSources ==
    /\ pc = "idle"
    /\ \/ \E k \in 1..MaxCand : \E ras \in [1..k -> CandRas], decs \in [1..k -> CandDecs] :
             src_st' = "list" /\ ra_test' = ras /\ dec_test' = decs
       \/ src_st' = "none" /\ ra_test' = <<>> /\ dec_test' = <<>>
    /\ err' = "" /\ gen_ok' = FALSE
    /\ UNCHANGED <<cfgVars, npix, outVars, pc, c, logVars>>

\* the `if reload:` block of generate_sources
Reload(np) ==
    IF nside = None \/ np = None
    THEN \* hp.nside2resol(None) / np.arange(None)
         /\ err' = "TypeError"
         /\ UNCHANGED <<src_st, ra_test, dec_test>>
    ELSE /\ src_st' = "list"
         /\ ra_test'  = [i \in 1..np |-> PixRa(i - 1)]
         /\ dec_test' = [i \in 1..np |-> PixDec(i - 1)]
         /\ err' = ""

\* MapScan.generate_sources(nside=flag)
GenerateSources(flag) ==
    /\ pc = "idle"
    /\ IF nside # None /\ flag
       THEN npix' = Nside2Npix(nside) /\ Reload(Nside2Npix(nside))
       ELSE IF npix # None /\ ~flag
       THEN UNCHANGED npix /\ Reload(npix)
       ELSE IF src_st = "unset"
       THEN \* self.ra_test does not exist
            err' = "AttributeError" /\ UNCHANGED <<npix, src_st, ra_test, dec_test>>
       ELSE IF src_st = "list"
       THEN \* "Using provided ra and dec": reload = False
            err' = "" /\ UNCHANGED <<npix, src_st, ra_test, dec_test>>
       ELSE UNCHANGED npix /\ Reload(npix)
    /\ gen_ok' = (err' = "")
    /\ UNCHANGED <<cfgVars, outVars, pc, c, logVars>>

\* MapScan._make_output_arrays
MakeOutputArrays ==
    IF npix # None
    THEN /\ has_out' = TRUE
         /\ ts' = Zeros(npix)
         /\ index' = Zeros(npix)
         /\ ns' = Zeros2(npix, num_of_irf_periods)
         /\ ns_err' = Zeros2(npix, num_of_irf_periods)
         /\ index_err' = Zeros(npix)
    ELSE \* logger.error("Call generate_sources() first.")
         UNCHANGED outVars

\* MapScan.perform_scan up to the first iteration of its loop
PerformScan ==
    /\ pc \in {"idle", "done", "error"}
    /\ MakeOutputArrays
    /\ c' = 0
    /\ IF src_st = "unset"
       THEN pc' = "error" /\ err' = "AttributeError" /\ UNCHANGED logVars
       ELSE IF src_st = "none"
       THEN pc' = "error" /\ err' = "TypeError" /\ UNCHANGED logVars
       ELSE /\ pc' = IF Len(ra_test) = 0 THEN "done" ELSE "loop"
            /\ err' = ""
            /\ lkl' = [i \in 1..Len(ra_test) |-> NoLikelihood]
            /\ fitCalls' = [i \in 1..Len(ra_test) |-> 0]
            /\ fitValid' = [i \in 1..Len(ra_test) |-> TRUE]
    /\ UNCHANGED <<cfgVars, npix, src_st, ra_test, dec_test, gen_ok>>

\* what the minimizer can return for a likelihood of n events
FitOutcomes(n) ==
    {[ts |-> n, index |-> 2, ns |-> n, index_err |-> 1, ns_err |-> 1, valid |-> v] :
        v \in BOOLEAN}

\* a guard that lets an empty likelihood through
FitGuardAlways(n) == n >= 0

\* the guard `if likelihood.N > 0`
FitGuard(n) == n > 0

\* a store that writes the slice arr[num:] instead of the entry arr[num]
StoreFrom(arr, num, v) == [i \in DOMAIN arr |-> IF i >= num + 1 THEN v ELSE arr[i]]

\* arr[num] = v
StoreAt(arr, num, v) == [arr EXCEPT ![num + 1] = v]

\* MapScan._test_source; n is likelihood.N, fit is what get_test_statistic()
\* leaves in the likelihood
TestSource(source_coord, num, ra, dec, n, fit) ==
    IF source_coord[2] <= Deg2Rad(10)
    THEN /\ lkl' = [lkl EXCEPT ![num + 1] =
                       [kind |-> "time_dependent", ra |-> ra, dec |-> dec, N |-> n]]
         /\ IF FitGuard(n)
            THEN /\ fitCalls' = [fitCalls EXCEPT ![num + 1] = @ + 1]
                 /\ fitValid' = [fitValid EXCEPT ![num + 1] = fit.valid]
                 /\ IF ~has_out
                    THEN pc' = "error" /\ err' = "AttributeError"
                         /\ UNCHANGED <<outVars, c>>
                    ELSE IF num + 1 > Len(ts)
                    THEN pc' = "error" /\ err' = "IndexError"
                         /\ UNCHANGED <<outVars, c>>
                    ELSE /\ ts' = StoreAt(ts, num, fit.ts)
                         /\ index' = StoreAt(index, num, fit.index)
                         /\ ns' = StoreAt(ns, num, [j \in 1..num_of_irf_periods |-> fit.ns])
                         /\ index_err' = StoreAt(index_err, num, fit.index_err)
                         /\ ns_err' = StoreAt(ns_err, num,
                                               [j \in 1..num_of_irf_periods |-> fit.ns_err])
                         /\ UNCHANGED has_out
                         /\ c' = c + 1
                         /\ pc' = IF c + 1 = Len(ra_test) THEN "done" ELSE "loop"
                         /\ UNCHANGED err
            ELSE /\ UNCHANGED <<fitCalls, fitValid, outVars, err>>
                 /\ c' = c + 1
                 /\ pc' = IF c + 1 = Len(ra_test) THEN "done" ELSE "loop"
    ELSE /\ UNCHANGED <<logVars, outVars, err>>
         /\ c' = c + 1
         /\ pc' = IF c + 1 = Len(ra_test) THEN "done" ELSE "loop"

\* one iteration of `for c, (ra, dec) in enumerate(zip(self.ra_test, self.dec_test))`:
\* the loop variables ra, dec rebind the names of the event arrays read before
ScanStep ==
    /\ pc = "loop"
    /\ LET ra  == ScalarArg(ra_test[c + 1])
           dec == ScalarArg(dec_test[c + 1])
       IN \E n \in 0..MaxN : \E fit \in FitOutcomes(n) :
             TestSource(<<ra.num, dec.num>>, c, ra, dec, n, fit)
    /\ UNCHANGED <<cfgVars, npix, src_st, ra_test, dec_test, gen_ok>>

-----------------------------------------------------------------------------
(* MapScan.apply_cuts *)

EminChoices == {100, 200}
CutEnergies == {150, 250}
CutDecs     == {Deg2Rad(-20), Deg2Rad(0), Deg2Rad(20)}
CutEventSet == [reco_energy : CutEnergies, dec : CutDecs]

CutInit ==
    /\ northern_emin \in EminChoices
    /\ equator_emin \in EminChoices
    /\ southern_emin \in EminChoices
    /\ cfg_periods \in {<<>>, <<"IC86_I">>}
    /\ cut_events \in [{"IC86_I"} -> SeqsUpTo(CutEventSet, MaxEv)]
    /\ cut_st = "none"

\* np.deg2rad(10) & events["reco_energy"]: `&` binds tighter than `<` and `>`, so
\* this is the first operand numpy evaluates inside the fourth parenthesis; numpy
\* has no bitwise_and for floating-point operands
BitwiseAnd(x, arr) == "TypeError"

\* the argument of np.nonzero for the events of one period
MaskOf(events) ==
    BitwiseAnd(Deg2Rad(10), [i \in DOMAIN events |-> events[i].reco_energy])

\* the loop of apply_cuts over self.periods; the mask is a local list that is
\* neither stored nor applied to the catalog
RECURSIVE CutLoop(_)
CutLoop(ps) ==
    IF ps = <<>> THEN "returned"
    ELSE IF MaskOf(cut_events[Head(ps)]) = "TypeError" THEN "TypeError"
         ELSE CutLoop(Tail(ps))

ApplyCuts ==
    /\ cut_st = "none"
    /\ cut_st' = CutLoop(cfg_periods)
    /\ UNCHANGED <<northern_emin, equator_emin, southern_emin, cfg_periods, cut_events>>

-----------------------------------------------------------------------------
(* SpatialGaussianLikelihood.__call__ *)
(* Coordinates lie on the grid of quarter turns, where sine and cosine are *)
(* exactly -1, 0 or 1; cos_r is kept in thousandths and r in               *)
(* milli-radians.                                                          *)

SpRas  == {Deg2Rad(0), Deg2Rad(90), Deg2Rad(180), Deg2Rad(270)}
SpDecs == {Deg2Rad(-90), Deg2Rad(0), Deg2Rad(90)}

\* the quarter turn nearest to an angle
Quarter(x) == ((2 * x + 1570796) \div 3141593) % 4

\* np.cos, np.sin (thousandths)
Cos(x) == CASE Quarter(x) = 0 -> 1000 [] Quarter(x) = 2 -> -1000 [] OTHER -> 0
Sin(x) == CASE Quarter(x) = 1 -> 1000 [] Quarter(x) = 3 -> -1000 [] OTHER -> 0

NaN == -999999

\* np.arccos (thousandths in, milli-radians out); nan outside [-1, 1]
ArcCos(x) ==
    CASE x = 1000  -> 0
      [] x = 999   -> 45
      [] x = 1     -> 1570
      [] x = 0     -> 1571
      [] x = -1    -> 1572
      [] x = -999  -> 3097
      [] x = -1000 -> 3142
      [] OTHER     -> NaN

\* cos_r before the clamp; fperr is the rounding error of the evaluation
CosR(event_coord, source_coord, fperr) ==
    (Cos(source_coord[1] - event_coord[1]) * Cos(source_coord[2]) * Cos(event_coord[2]))
        \div 1000000
    + (Sin(source_coord[2]) * Sin(event_coord[2])) \div 1000
    + fperr

\* "Handle possible floating precision errors."
Clamp(cos_r) ==
    LET a == IF cos_r < -1000 THEN 1000 ELSE cos_r
    IN  IF a > 1000 THEN 1000 ELSE a

SpInit ==
    /\ sp_event \in SpRas \X SpDecs
    /\ sp_source \in SpRas \X SpDecs
    /\ sp_fperr \in {-1, 0, 1}
    /\ sp_cos_r = 0 /\ sp_r = 0 /\ sp_st = "idle"

\* the call; the value returned is norm * exp(-0.5 * (r / sigma_rad)**2), a
\* function of r and the fixed sigma
SpatialCall ==
    /\ sp_st = "idle"
    /\ sp_cos_r' = Clamp(CosR(sp_event, sp_source, sp_fperr))
    /\ sp_r' = ArcCos(sp_cos_r')
    /\ sp_st' = "returned"
    /\ UNCHANGED <<sp_event, sp_source, sp_fperr>>

-----------------------------------------------------------------------------
(* MarginalisedEnergyLikelihood *)
(* log10 of an energy is an integer position on an axis of 1/14 decade:    *)
(* the 50 edges of np.linspace(log10(1e2), log10(1e9)) are the even        *)
(* positions 28, 30, ..., 126; the reference sample sits on bin centres.   *)
(* A spectral index is kept as twice its value.                            *)

Callers == {1, 2}

NumEdges  == 50
LowEdge   == 28
HighEdge  == 126
SimIndex2 == 3

\* self._energy: log10 positions of the reference sample
Energy == <<29, 57, 85>>

IndexChoices == {3, 4, 5}
QueryChoices == {27, 29, 57, 126}

RECURSIVE Pow10(_)
Pow10(k) == IF k = 0 THEN 1 ELSE 10 * Pow10(k - 1)

RECURSIVE GCD(_, _)
GCD(a, b) == IF b = 0 THEN a ELSE GCD(b, a % b)

Min(S) == CHOOSE x \in S : \A y \in S : x <= y

RECURSIVE SumSeq(_)
SumSeq(q) == IF q = <<>> THEN 0 ELSE Head(q) + SumSeq(Tail(q))

\* np.linspace(np.log10(min_E), np.log10(max_E)): edge i (0-based)
Bins(i) == LowEdge + i * ((HighEdge - LowEdge) \div (NumEdges - 1))

\* _calc_weights: log10 of np.power(self._energy, self._sim_index - self._new_index),
\* in units of 1/28 decade; the parameter new_index is not used
CalcWeights(new_index) ==
    [i \in DOMAIN Energy |-> Energy[i] * (SimIndex2 - en_new_index)]

\* the same for a given index, for the value a call returns when it runs alone
WeightsFor(idx) == [i \in DOMAIN Energy |-> Energy[i] * (SimIndex2 - idx)]

\* np.histogram(np.log10(self._energy), bins, weights, density=True):
\* bin b (0-based) holds the density <<numerator, denominator>> in lowest terms
Histogram(weights) ==
    LET lo   == Min({weights[i] : i \in DOMAIN weights})
        w    == [i \in DOMAIN weights |-> Pow10((weights[i] - lo) \div 28)]
        tot  == SumSeq(w)
        inb(b) == SumSeq([i \in DOMAIN weights |->
                    IF Bins(b) <= Energy[i] /\ Energy[i] < Bins(b + 1) THEN w[i] ELSE 0])
        \* density = inb / (tot * width), width = 2/14 decade
        frac(b) == LET n == 7 * inb(b)
                       g == GCD(n, tot)
                   IN  <<n \div g, tot \div g>>
    IN  [b \in 1..(NumEdges - 1) |-> frac(b - 1)]

\* np.digitize(np.log10(E), bins)
Digitize(x) ==
    IF x < Bins(0) THEN 0
    ELSE IF x >= Bins(NumEdges - 1) THEN NumEdges
    ELSE ((x - Bins(0)) \div (Bins(1) - Bins(0))) + 1

NoRet == [kind |-> "none", bin |-> None, val |-> <<0, 1>>]

\* self._hist[E_index]: a negative index counts from the end, an index past
\* the end raises IndexError
Subscript(hist, E_index) ==
    IF E_index >= Len(hist) \/ E_index < -Len(hist)
    THEN [kind |-> "IndexError", bin |-> None, val |-> <<0, 1>>]
    ELSE LET b == IF E_index < 0 THEN E_index + Len(hist) ELSE E_index
         IN  [kind |-> "value", bin |-> b, val |-> hist[b + 1]]

EnInit ==
    /\ en_new_index = None
    /\ en_weights = <<>>
    /\ en_hist = <<>>
    /\ en_pc = [p \in Callers |-> "start"]
    /\ en_E \in [Callers -> QueryChoices]
    /\ en_arg \in [Callers -> IndexChoices]
    /\ en_ret = [p \in Callers |-> NoRet]

\* self._new_index = new_index
SetNewIndex(p) ==
    /\ en_pc[p] = "start"
    /\ en_new_index' = en_arg[p]
    /\ en_pc' = [en_pc EXCEPT ![p] = "weights"]
    /\ UNCHANGED <<en_weights, en_hist, en_E, en_arg, en_ret>>

\* self._weights = self._calc_weights(new_index)
SetWeights(p) ==
    /\ en_pc[p] = "weights"
    /\ en_weights' = CalcWeights(en_arg[p])
    /\ en_pc' = [en_pc EXCEPT ![p] = "hist"]
    /\ UNCHANGED <<en_new_index, en_hist, en_E, en_arg, en_ret>>

\* bins = ...; self._hist, _ = np.histogram(...)
SetHist(p) ==
    /\ en_pc[p] = "hist"
    /\ en_hist' = Histogram(en_weights)
    /\ en_pc' = [en_pc EXCEPT ![p] = "lookup"]
    /\ UNCHANGED <<en_new_index, en_weights, en_E, en_arg, en_ret>>

\* E_index = np.digitize(np.log10(E), bins) - 1; return self._hist[E_index]
Lookup(p) ==
    /\ en_pc[p] = "lookup"
    /\ en_ret' = [en_ret EXCEPT ![p] = Subscript(en_hist, Digitize(en_E[p]) - 1)]
    /\ en_pc' = [en_pc EXCEPT ![p] = "done"]
    /\ UNCHANGED <<en_new_index, en_weights, en_hist, en_E, en_arg>>

-----------------------------------------------------------------------------
(* Specifications *)

ScanIdle == /\ nside = None /\ npix = None /\ periods = <<>> /\ num_of_irf_periods = 0
            /\ src_st = "unset" /\ ra_test = <<>> /\ dec_test = <<>> /\ has_out = FALSE
            /\ ts = <<>> /\ index = <<>> /\ ns = <<>> /\ ns_err = <<>> /\ index_err = <<>>
            /\ ev_ra = <<>> /\ ev_dec = <<>> /\ pc = "idle" /\ c = 0 /\ err = ""
            /\ gen_ok = FALSE
            /\ lkl = <<>> /\ fitCalls = <<>> /\ fitValid = <<>>
CutIdle  == /\ northern_emin = 0 /\ equator_emin = 0 /\ southern_emin = 0
            /\ cfg_periods = <<>> /\ cut_events = <<>> /\ cut_st = "none"
SpIdle   == /\ sp_event = <<0, 0>> /\ sp_source = <<0, 0>> /\ sp_fperr = 0
            /\ sp_cos_r = 0 /\ sp_r = 0 /\ sp_st = "idle"
EnIdle   == /\ en_new_index = None /\ en_weights = <<>> /\ en_hist = <<>>
            /\ en_pc = <<>> /\ en_E = <<>> /\ en_arg = <<>> /\ en_ret = <<>>

\* the scan of MapScan
ScanNext ==
    \/ ProvideSources /\ UNCHANGED <<cutVars, spVars, enVars>>
    \/ \E flag \in BOOLEAN : GenerateSources(flag) /\ UNCHANGED <<cutVars, spVars, enVars>>
    \/ PerformScan /\ UNCHANGED <<cutVars, spVars, enVars>>
    \/ ScanStep /\ UNCHANGED <<cutVars, spVars, enVars>>
InitScan == ScanInit /\ CutIdle /\ SpIdle /\ EnIdle
SpecScan == InitScan /\ [][ScanNext]_vars

\* the cuts of MapScan
CutNext == ApplyCuts /\ UNCHANGED <<scanVars, spVars, enVars>>
InitCuts == ScanIdle /\ CutInit /\ SpIdle /\ EnIdle
SpecCuts == InitCuts /\ [][CutNext]_vars

\* one call of the spatial likelihood
SpNext == SpatialCall /\ UNCHANGED <<scanVars, cutVars, enVars>>
InitSpatial == ScanIdle /\ CutIdle /\ SpInit /\ EnIdle
SpecSpatial == InitSpatial /\ [][SpNext]_vars

\* two calls of one energy likelihood, interleaved
EnNext ==
    \E p \in Callers :
        \/ SetNewIndex(p) /\ UNCHANGED <<scanVars, cutVars, spVars>>
        \/ SetWeights(p) /\ UNCHANGED <<scanVars, cutVars, spVars>>
        \/ SetHist(p) /\ UNCHANGED <<scanVars, cutVars, spVars>>
        \/ Lookup(p) /\ UNCHANGED <<scanVars, cutVars, spVars>>
InitEnergy == ScanIdle /\ CutIdle /\ SpIdle /\ EnInit
SpecEnergy == InitEnergy /\ [][EnNext]_vars

-----------------------------------------------------------------------------
(* Properties of the scan (SpecScan) *)

\* row i of the output arrays exists
HasRow(i) == has_out /\ i \in 1..Len(ts)

\* row i of the output arrays holds the defaults of _make_output_arrays
RowIsZero(i) ==
    /\ ts[i] = 0 /\ index[i] = 0 /\ index_err[i] = 0
    /\ ns[i] = [j \in 1..num_of_irf_periods |-> 0]
    /\ ns_err[i] = [j \in 1..num_of_irf_periods |-> 0]

\* C1: for a candidate whose likelihood has N = 0 events the fit is never
\* invoked, and the candidate's entries of ts, ns, index and the two error
\* arrays stay at their default 0.
C1_NoFitWhenEmpty ==
    \A i \in DOMAIN lkl :
        lkl[i].N = 0 => fitCalls[i] = 0 /\ (HasRow(i) => RowIsZero(i))

\* a finished scan in which a candidate with N = 0 was visited, has a row, and
\* another candidate was fitted and stored
C1_Witness ==
    /\ pc = "done"
    /\ \E i, j \in DOMAIN lkl :
          /\ lkl[i].N = 0 /\ HasRow(i)
          /\ fitCalls[j] = 1 /\ HasRow(j) /\ ts[j] # 0

\* C3: a finished scan has produced a result for every candidate: a
\* likelihood was built for every candidate, on either side of dec = 10 deg,
\* and every candidate with N > 0 was fitted and its row populated.
C3_EveryCandidateEvaluated ==
    pc = "done" =>
        \A i \in DOMAIN lkl :
            /\ lkl[i].kind # "none"
            /\ lkl[i].N > 0 => fitCalls[i] = 1 /\ HasRow(i) /\ ~RowIsZero(i)

\* C4: the right ascensions and declinations handed to the likelihood of
\* every candidate are the event arrays of the catalog.
C4_LikelihoodGetsCatalogArrays ==
    \A i \in DOMAIN lkl :
        lkl[i].kind # "none" =>
            lkl[i].ra = ArrayArg(ev_ra) /\ lkl[i].dec = ArrayArg(ev_dec)

\* C5: when the loop of perform_scan starts after generate_sources has set
\* the candidates (from the pixelization or from the list supplied), the
\* output arrays exist, are all zero and have one row per candidate position.
C5_ArraysSizedToCandidates ==
    (pc = "loop" /\ c = 0 /\ gen_ok) =>
        /\ has_out
        /\ Len(ts) = Len(ra_test) /\ Len(index) = Len(ra_test)
        /\ Len(ns) = Len(ra_test) /\ Len(ns_err) = Len(ra_test)
        /\ Len(index_err) = Len(ra_test)
        /\ \A i \in 1..Len(ts) : RowIsZero(i)

\* C6: evaluating candidate c changes no entry of ts, index, ns, ns_err and
\* index_err other than those at index c.
C6_WritesOwnEntryOnly ==
    [][pc = "loop" =>
         \A i \in DOMAIN ts :
             i # c + 1 =>
                 /\ ts'[i] = ts[i] /\ index'[i] = index[i] /\ ns'[i] = ns[i]
                 /\ ns_err'[i] = ns_err[i] /\ index_err'[i] = index_err[i]]_vars

\* two candidates of one scan were fitted and each row holds a stored result
C6_Witness ==
    /\ pc \in {"loop", "done"}
    /\ \E i, j \in DOMAIN lkl :
          /\ i # j /\ HasRow(i) /\ HasRow(j)
          /\ fitCalls[i] = 1 /\ fitCalls[j] = 1
          /\ ts[i] # 0 /\ ts[j] # 0

\* C9: the numbers of a fit that did not converge are not stored as a normal
\* result: the row of such a candidate keeps its defaults.
C9_NonConvergedNotStored ==
    \A i \in DOMAIN fitValid :
        (fitCalls[i] > 0 /\ ~fitValid[i] /\ HasRow(i)) => RowIsZero(i)

-----------------------------------------------------------------------------
(* Properties of the cuts (SpecCuts) *)

\* the threshold of the declination band of d
BandEmin(d) ==
    IF d > Deg2Rad(10) THEN northern_emin
    ELSE IF d < Deg2Rad(-10) THEN southern_emin
    ELSE equator_emin

IsRetainedByBand(e) == e.reco_energy > BandEmin(e.dec)

\* C2: after apply_cuts the events retained are exactly those whose energy
\* exceeds the threshold of their declination band.
C2_RetainedIsBandSelection ==
    cut_st # "none" =>
        /\ cut_st = "returned"
        /\ \A p \in DOMAIN cut_events :
              cut_events[p] = SelectSeq(cut_events[p], IsRetainedByBand)

-----------------------------------------------------------------------------
(* Properties of the spatial likelihood (SpecSpatial) *)

\* C7: a cos_r above 1 is clamped to 1 and gives r = 0, a cos_r below -1 is
\* clamped to -1 and gives r = pi; the arccosine is never taken outside [-1, 1].
C7_ClampBothSides ==
    sp_st = "returned" =>
        LET raw == CosR(sp_event, sp_source, sp_fperr)
        IN  /\ sp_r # NaN
            /\ raw > 1000 => sp_cos_r = 1000 /\ sp_r = 0
            /\ raw < -1000 => sp_cos_r = -1000 /\ sp_r = 3142

-----------------------------------------------------------------------------
(* Properties of the energy likelihood (SpecEnergy) *)

OutOfRange(x) == x < LowEdge \/ x >= HighEdge

\* how a finished call answered an out-of-range query
Policy(p) ==
    IF en_ret[p].kind = "IndexError" THEN "error"
    ELSE IF en_ret[p].bin = (IF en_E[p] < LowEdge THEN 0 ELSE NumEdges - 2) THEN "clamp"
    ELSE "unrelated"

\* C8: every query outside [min_E, max_E] is answered by one policy, clamp
\* to the nearest edge bin or an out-of-range error, never by the density of
\* an unrelated bin.
C8_OnePolicyOutOfRange ==
    \A p, q \in DOMAIN en_pc :
        (en_pc[p] = "done" /\ en_pc[q] = "done"
            /\ OutOfRange(en_E[p]) /\ OutOfRange(en_E[q])) =>
            Policy(p) # "unrelated" /\ Policy(p) = Policy(q)

\* what a call returns when no other call runs on the object
Alone(E, idx) == Subscript(Histogram(WeightsFor(idx)), Digitize(E) - 1)

\* C10: under every interleaving of two calls on one object, each call
\* returns what it returns when it runs alone.
C10_InterleavingIndependent ==
    \A p \in DOMAIN en_pc :
        en_pc[p] = "done" => en_ret[p] = Alone(en_E[p], en_arg[p])

====
